---- MODULE Spec2Model ----
(***************************************************************************)
(* A model of dropbox_comcut_restore.py: the revision selector             *)
(* (find_precut_revision), the file classifier (is_video_file,             *)
(* generate_files, edl_for_video) and the restore orchestrator             *)
(* (comcut_restore_cli).                                                   *)
(*                                                                         *)
(* Conventions                                                             *)
(*  - Python's None is the empty tuple, a present value v is <<v>>.        *)
(*  - Paths and file names are strings; Len, SubSeq and \o act on them     *)
(*    character by character.                                              *)
(*  - The thresholds latest_size * 1.07, * 1.1, * 0.8 and * 1.8 are kept   *)
(*    in hundredths of a byte (latest_size * 107, ...), and a size is      *)
(*    multiplied by 100 before it is compared with one.  For sizes below   *)
(*    2^41 the IEEE double comparisons of the source give the same         *)
(*    verdicts as these exact ones.                                        *)
(*  - A timestamp is a positive integer; the revisions of one path have    *)
(*    pairwise distinct server_modified values.                            *)
(***************************************************************************)
EXTENDS FiniteSets, Integers, Sequences, TLC

VARIABLES
    pc,                  \* position of the program / of the function under study
    entries,             \* what files_list_revisions returned, in service order
    has_been_cut,        \* the already-cut flag handed to find_precut_revision
    no_older_than_time,  \* the --lt cutoff, None when absent
    uncut_rev,           \* the value find_precut_revision returned
    args,                \* the positional arguments (media_paths)
    scandir,             \* the order in which the OS lists each directory
    files,               \* the paths generate_files yielded, in order
    opts,                \* the options of the command line, as (opt, arg) pairs
    token,               \* DROPBOX_ACCESS_TOKEN, None when unset
    dry_run,             \* -n / --dry-run
    media_base,          \* -d / --dir, None when absent
    idx,                 \* position of video_filepath in files
    calls,               \* the remote calls made so far, in order, each with
                         \* the candidate it was made for and how it ended
    status,              \* what became of each candidate visited so far
    outcome,             \* how the run ended, "running" until then
    disk,                \* what is on disk at the two companion paths of
                         \* the candidate, as found when it is taken up
    edl_filepath         \* the path edl_for_video returned for it, None before

selVars == <<entries, has_been_cut, no_older_than_time, uncut_rev>>

fileVars == <<args, scandir, files>>

cfgVars == <<opts, token, dry_run, media_base>>

runVars == <<idx, calls, status, outcome>>

edlVars == <<disk, edl_filepath>>

vars == <<pc, selVars, fileVars, cfgVars, runVars, edlVars>>

None == << >>

Some(v) == <<v>>

Range(s) == { s[i] : i \in DOMAIN s }

(***************************************************************************)
(* Bounds                                                                  *)
(***************************************************************************)
MaxRevs == 3

MaxArgs == 2

MaxOpts == 3

MaxFiles == 3

MaxRunRevs == 2

\* Sizes around the thresholds of a 100 byte baseline: below 0.8x, at 0.8x,
\* the baseline, at 1.07x, at 1.1x and at 1.8x; 180 is above 1.8x of an
\* 80 byte baseline, and every positive size is above 1.8x of an empty one.
Sizes == {0, 80, 100, 107, 110, 180}

(***************************************************************************)
(* Revision histories as the service may return them: 1..MaxRevs revisions *)
(* in any order, rev being the opaque revision identifier.                 *)
(***************************************************************************)
HistoriesOfLen(n, sizes) ==
    { [i \in 1..n |-> [size |-> sz[i], server_modified |-> tm[i], rev |-> i]] :
        sz \in [1..n -> sizes], tm \in Permutations(1..n) }

Histories == UNION { HistoriesOfLen(n, Sizes) : n \in 1..MaxRevs }

Cutoffs(h) == {None} \cup { Some(t) : t \in 1..(Len(h) + 1) }

(***************************************************************************)
(* find_precut_revision                                                    *)
(***************************************************************************)
\* sorted(entries, key=server_modified, reverse=True): the stable descending
\* sort, built by taking out the first entry of greatest key each time.
IndexOfMax(s) ==
    CHOOSE i \in 1..Len(s) :
        /\ \A j \in 1..Len(s) : s[j].server_modified <= s[i].server_modified
        /\ \A j \in 1..(i - 1) : s[j].server_modified < s[i].server_modified

Remove(s, i) == SubSeq(s, 1, i - 1) \o SubSeq(s, i + 1, Len(s))

\* (variant: the entries taken in the order the service returned them)
sorted_as_returned(s) == s

RECURSIVE sorted(_)
sorted(s) ==
    IF s = << >> THEN << >>
    ELSE LET i == IndexOfMax(s) IN <<s[i]>> \o sorted(Remove(s, i))

\* Thresholds, in hundredths.
\* (variant: the margin subtracted instead of added)
target_size_below(latest_size, cut) ==
    IF cut THEN latest_size * 93 ELSE latest_size * 90

target_size_swapped(latest_size, cut) ==
    IF cut THEN latest_size * 110 ELSE latest_size * 107

target_size(latest_size, cut) ==
    IF cut THEN latest_size * 107 ELSE latest_size * 110

stop_size_sm_half(latest_size) == latest_size * 50

stop_size_sm(latest_size) == latest_size * 80

stop_size_lg(latest_size) == latest_size * 180

\* (variant: the target test ahead of the pre-transcoded test)
LoopBody_target_first(rev, latest_size, cut, cutoff) ==
    IF cutoff # None /\ rev.server_modified < cutoff[1] THEN "break"
    ELSE IF rev.size * 100 > target_size(latest_size, cut) THEN "pre-cut"
    ELSE IF rev.size * 100 > stop_size_lg(latest_size) THEN "pre-transcoded"
    ELSE IF rev.size * 100 < stop_size_sm(latest_size) THEN "cut"
    ELSE "continue"

\* (variant: a revision modified exactly at the cutoff ends the walk too)
LoopBody_cutoff_inclusive(rev, latest_size, cut, cutoff) ==
    IF cutoff # None /\ rev.server_modified <= cutoff[1] THEN "break"
    ELSE IF rev.size * 100 > stop_size_lg(latest_size) THEN "pre-transcoded"
    ELSE IF rev.size * 100 > target_size(latest_size, cut) THEN "pre-cut"
    ELSE IF rev.size * 100 < stop_size_sm(latest_size) THEN "cut"
    ELSE "continue"

\* (variant: non-strict comparisons)
LoopBody_non_strict(rev, latest_size, cut, cutoff) ==
    IF cutoff # None /\ rev.server_modified < cutoff[1] THEN "break"
    ELSE IF rev.size * 100 >= stop_size_lg(latest_size) THEN "pre-transcoded"
    ELSE IF rev.size * 100 >= target_size(latest_size, cut) THEN "pre-cut"
    ELSE IF rev.size * 100 <= stop_size_sm(latest_size) THEN "cut"
    ELSE "continue"

\* One pass of the loop body for the revision rev: which branch fires.
LoopBody(rev, latest_size, cut, cutoff) ==
    IF cutoff # None /\ rev.server_modified < cutoff[1] THEN "break"
    ELSE IF rev.size * 100 > stop_size_lg(latest_size) THEN "pre-transcoded"
    ELSE IF rev.size * 100 > target_size(latest_size, cut) THEN "pre-cut"
    ELSE IF rev.size * 100 < stop_size_sm(latest_size) THEN "cut"
    ELSE "continue"

\* for rev in revisions[1:], from the i-th element of revisions on.
RECURSIVE Walk(_, _, _, _)
Walk(revisions, i, cut, cutoff) ==
    IF i > Len(revisions) THEN None
    ELSE LET branch == LoopBody(revisions[i], revisions[1].size, cut, cutoff) IN
         CASE branch = "continue" -> Walk(revisions, i + 1, cut, cutoff)
           [] branch = "pre-cut"  -> Some(revisions[i])
           [] OTHER               -> None

\* The value returned for a non-empty list of entries.
find_precut_revision(ents, cut, cutoff) ==
    Walk(sorted(ents), 2, cut, cutoff)

(***************************************************************************)
(* Strings                                                                 *)
(***************************************************************************)
startswith(s, p) == Len(s) >= Len(p) /\ SubSeq(s, 1, Len(p)) = p

endswith(s, p) == Len(s) >= Len(p) /\ SubSeq(s, Len(s) - Len(p) + 1, Len(s)) = p

\* str.rfind, counted from 1: the last position of the character c, else 0.
rfind(s, c) ==
    LET at == { i \in 1..Len(s) : SubSeq(s, i, i) = c }
    IN  IF at = {} THEN 0 ELSE CHOOSE i \in at : \A j \in at : j <= i

\* os.path.basename and os.path.join on POSIX paths.
basename(path) == SubSeq(path, rfind(path, "/") + 1, Len(path))

join(root, name) == IF endswith(root, "/") THEN root \o name ELSE root \o "/" \o name

\* The characters of the model's names, in code point order.
Ascii == "./0123456789ABCDEFGHIJKLMNOPQRSTUVWXYZ_abcdefghijklmnopqrstuvwxyz"

Ord(c) == CHOOSE i \in 1..Len(Ascii) : SubSeq(Ascii, i, i) = c

\* Python's < on str: by code point, a proper prefix first.
RECURSIVE StrLess(_, _)
StrLess(a, b) ==
    IF b = "" THEN FALSE
    ELSE IF a = "" THEN TRUE
    ELSE IF SubSeq(a, 1, 1) = SubSeq(b, 1, 1)
         THEN StrLess(SubSeq(a, 2, Len(a)), SubSeq(b, 2, Len(b)))
         ELSE Ord(SubSeq(a, 1, 1)) < Ord(SubSeq(b, 1, 1))

\* list.sort() on a list of distinct names.
RECURSIVE SortNames(_)
SortNames(names) ==
    IF names = << >> THEN << >>
    ELSE LET i == CHOOSE i \in 1..Len(names) :
                      \A j \in 1..Len(names) : j = i \/ StrLess(names[i], names[j])
         IN  <<names[i]>> \o SortNames(Remove(names, i))

(***************************************************************************)
(* The local filesystem: a fixed tree.  Each directory holds files and     *)
(* sub-directories by name; the order in which the OS lists them is an     *)
(* input (scandir).                                                        *)
(***************************************************************************)
Tree ==
    [ d \in {"/m", "/m/s", "/m/s/m", "/m/t"} |->
        CASE d = "/m"     -> [files |-> {"a.mkv", ".h.mkv"}, dirs |-> {"s", "t"}]
          [] d = "/m/s"   -> [files |-> {"b.ts", "._b.ts"},  dirs |-> {"m"}]
          [] d = "/m/s/m" -> [files |-> {"c.mov", "c.TS"},   dirs |-> {}]
          [] d = "/m/t"   -> [files |-> {"d.mp4", "d.edl"},  dirs |-> {}] ]

FsDirs == DOMAIN Tree

FsFiles == UNION { { join(d, f) : f \in Tree[d].files } : d \in FsDirs }

isfile(path) == path \in FsFiles

isdir(path) == path \in FsDirs

\* All the orders of the elements of a finite set.
Orders(S) ==
    { q \in [1..Cardinality(S) -> S] : \A i, j \in 1..Cardinality(S) : q[i] = q[j] => i = j }

\* os.scandir as os.walk uses it: for each directory the sub-directories
\* and the other entries, each in the order the OS happens to list them.
Listings ==
    [ FsDirs -> UNION { { [files |-> fs, dirs |-> ds] :
                            fs \in Orders(Tree[d].files), ds \in Orders(Tree[d].dirs) } :
                        d \in FsDirs } ]

ValidListings ==
    { l \in Listings : \A d \in FsDirs : /\ Range(l[d].files) = Tree[d].files
                                          /\ Range(l[d].dirs) = Tree[d].dirs }

SortedListing ==
    [ d \in FsDirs |->
        [files |-> SortNames(CHOOSE q \in Orders(Tree[d].files) : TRUE),
         dirs  |-> SortNames(CHOOSE q \in Orders(Tree[d].dirs) : TRUE)] ]

\* What may be given on the command line: directories, files, a missing path.
ArgPaths == FsDirs \cup FsFiles \cup {"/m/none.mkv"}

ArgSeqs == UNION { [1..n -> ArgPaths] : n \in 0..MaxArgs }

(***************************************************************************)
(* is_video_file, generate_files                                           *)
(***************************************************************************)
VIDEO_EXTENSIONS == <<"mkv", "ts", "mp4", "mov">>

is_video_file(filepath) ==
    IF startswith(basename(filepath), "._") THEN FALSE
    ELSE \E i \in 1..Len(VIDEO_EXTENSIONS) : endswith(filepath, "." \o VIDEO_EXTENSIONS[i])

\* Concatenation of a sequence of sequences.
RECURSIVE Flatten(_)
Flatten(ss) == IF ss = << >> THEN << >> ELSE Head(ss) \o Flatten(Tail(ss))

\* The inner loop of generate_files over one directory of the walk:
\* files.sort(), then the names that are not hidden and are videos.
YieldFromDir(root, listing) ==
    LET sortedFiles == SortNames(listing[root].files)
        paths == [i \in 1..Len(sortedFiles) |-> join(root, sortedFiles[i])]
    IN  SelectSeq(paths, LAMBDA filepath :
            ~startswith(basename(filepath), ".") /\ is_video_file(filepath))

\* os.walk(top), top-down: the directory itself, then its sub-directories
\* in listing order; nothing for a path that is not a directory.
RECURSIVE WalkDir(_, _)
WalkDir(top, listing) ==
    IF ~isdir(top) THEN << >>
    ELSE YieldFromDir(top, listing)
         \o Flatten([i \in 1..Len(listing[top].dirs) |->
                        WalkDir(join(top, listing[top].dirs[i]), listing)])

\* What generate_files yields for one element of media_paths.  The paths
\* given are absolute and normalised, so os.path.abspath leaves them as is.
GenerateOne(media_path, listing) ==
    (IF isfile(media_path) /\ is_video_file(media_path) THEN <<media_path>> ELSE << >>)
    \o WalkDir(media_path, listing)

generate_files(media_paths, listing) ==
    Flatten([i \in 1..Len(media_paths) |-> GenerateOne(media_paths[i], listing)])

(***************************************************************************)
(* replace_extension, edl_for_video, str.replace, datetime.fromisoformat   *)
(***************************************************************************)
\* os.path.splitext(path)[0]: cut at the last dot of the last component,
\* unless only dots precede it there.
splitext_root(path) ==
    LET sep == rfind(path, "/")
        dot == rfind(path, ".")
    IN  IF dot > sep /\ \E i \in (sep + 1)..(dot - 1) : SubSeq(path, i, i) # "."
        THEN SubSeq(path, 1, dot - 1)
        ELSE path

replace_extension(path, new_extension) == splitext_root(path) \o "." \o new_extension

\* What may be found at a companion path: nothing, a directory, a regular
\* file without the marker, a regular file holding "## cut complete".
PathKinds == {"absent", "dir", "file", "cut"}

Companions == [edl : PathKinds, bak : PathKinds]

NoCompanions == [edl |-> "absent", bak |-> "absent"]

\* What is at path for the candidate filepath whose companions are d.
companion_at(d, filepath, path) ==
    IF path = replace_extension(filepath, "edl") THEN d.edl
    ELSE IF path = replace_extension(filepath, "bak.edl") THEN d.bak
    ELSE "absent"

\* The companion paths for which os.path.exists holds.
path_exists(d, filepath) ==
    { path \in {replace_extension(filepath, "edl"),
                replace_extension(filepath, "bak.edl")} :
        companion_at(d, filepath, path) # "absent" }

edl_for_video_bak_first(filepath, exists) ==
    LET edl_path == replace_extension(filepath, "edl")
        edl_bak_path == replace_extension(filepath, "bak.edl")
    IN  IF edl_bak_path \in exists THEN edl_bak_path
        ELSE IF edl_path \in exists THEN edl_path
        ELSE edl_path

\* exists: the local paths for which os.path.exists holds.
edl_for_video(filepath, exists) ==
    LET edl_path == replace_extension(filepath, "edl")
        edl_bak_path == replace_extension(filepath, "bak.edl")
    IN  IF edl_path \in exists THEN edl_path
        ELSE IF edl_bak_path \in exists THEN edl_bak_path
        ELSE edl_path

\* Lines 144-147: the flag is set only when the resolved path is a regular
\* file, and then to whether its text holds the marker.
cut_complete(d, filepath, path) ==
    IF path # "" /\ companion_at(d, filepath, path) \in {"file", "cut"}
    THEN companion_at(d, filepath, path) = "cut"
    ELSE FALSE

\* str.replace(old, new) for a non-empty old: every occurrence, left to right.
RECURSIVE replace(_, _, _)
replace(str, old, new) ==
    IF Len(str) < Len(old) THEN str
    ELSE IF startswith(str, old)
         THEN new \o replace(SubSeq(str, Len(old) + 1, Len(str)), old, new)
         ELSE SubSeq(str, 1, 1) \o replace(SubSeq(str, 2, Len(str)), old, new)

\* datetime.fromisoformat on the dates "2026-01-01" .. "2026-01-09", whose
\* timestamp is the day of the month; None stands for ValueError.
fromisoformat(arg) ==
    IF Len(arg) = 10 /\ SubSeq(arg, 1, 9) = "2026-01-0"
       /\ \E d \in 1..9 : SubSeq("123456789", d, d) = SubSeq(arg, 10, 10)
    THEN Some(CHOOSE d \in 1..9 : SubSeq("123456789", d, d) = SubSeq(arg, 10, 10))
    ELSE None

(***************************************************************************)
(* comcut_restore_cli: the command line                                    *)
(***************************************************************************)
Opt(o, a) == [opt |-> o, arg |-> a]

\* What getopt accepts: "hnvd:t:" and help, verbose, dry-run, dir=, lt=.
KnownOpts == {"-h", "--help", "-n", "--dry-run", "-v", "--verbose",
              "-d", "--dir", "-t", "--lt"}

\* for opt, arg in opts, from the i-th option on; c holds dry_run,
\* media_base and no_older_than_time as set so far.
RECURSIVE OptLoop(_, _, _)
OptLoop(os, i, c) ==
    IF i > Len(os) THEN [c EXCEPT !.end = "ok"]
    ELSE LET opt == os[i].opt
             arg == os[i].arg
         IN  IF opt \in {"-h", "--help"} THEN [c EXCEPT !.end = "usage"]
             ELSE IF opt = "--verbose" THEN OptLoop(os, i + 1, c)
             ELSE IF opt \in {"-n", "--dry-run"}
                  THEN OptLoop(os, i + 1, [c EXCEPT !.dry_run = TRUE])
             ELSE IF opt \in {"-d", "--dir"}
                  THEN OptLoop(os, i + 1,
                         [c EXCEPT !.media_base =
                             Some(IF endswith(arg, "/")
                                  THEN SubSeq(arg, 1, Len(arg) - 1) ELSE arg)])
             ELSE IF opt = "--lt"
                  THEN IF fromisoformat(arg) = None
                       THEN [c EXCEPT !.end = "ValueError"]
                       ELSE OptLoop(os, i + 1,
                              [c EXCEPT !.no_older_than_time = fromisoformat(arg)])
             ELSE OptLoop(os, i + 1, c)

\* (variant: the access token is not checked)
Configure_token_unchecked(os, as, tok) ==
    LET c0 == [end |-> "ok", dry_run |-> FALSE, media_base |-> None,
               no_older_than_time |-> None]
    IN  IF \E i \in 1..Len(os) : os[i].opt \notin KnownOpts
        THEN [c0 EXCEPT !.end = "usage"]
        ELSE LET c == OptLoop(os, 1, c0)
             IN  IF c.end # "ok" THEN c
                 ELSE IF Len(as) = 0 THEN [c EXCEPT !.end = "sys.exit"]
                 ELSE IF c.media_base = None \/ c.media_base = Some("")
                      THEN [c EXCEPT !.end = "sys.exit"]
                 ELSE c

\* Lines 105-139: how the start-up ends ("ok" when the batch may begin) and
\* the settings it leaves.
Configure(os, as, tok) ==
    LET c0 == [end |-> "ok", dry_run |-> FALSE, media_base |-> None,
               no_older_than_time |-> None]
    IN  IF \E i \in 1..Len(os) : os[i].opt \notin KnownOpts
        THEN [c0 EXCEPT !.end = "usage"]
        ELSE LET c == OptLoop(os, 1, c0)
             IN  IF c.end # "ok" THEN c
                 ELSE IF Len(as) = 0 THEN [c EXCEPT !.end = "sys.exit"]
                 ELSE IF c.media_base = None \/ c.media_base = Some("")
                      THEN [c EXCEPT !.end = "sys.exit"]
                 ELSE IF tok = None \/ tok = Some("") THEN [c EXCEPT !.end = "sys.exit"]
                 ELSE c

\* The ways a run ends, and the exit status of the process for each.
Return(code) == [kind |-> "return", code |-> code]

SysExit == [kind |-> "sys.exit", code |-> 1]

Raise(exc) == [kind |-> exc, code |-> 1]

Running == [kind |-> "running", code |-> 0]

IdleRun ==
    /\ opts = << >> /\ token = None /\ dry_run = FALSE /\ media_base = None
    /\ idx = 0 /\ calls = << >> /\ status = << >>
    /\ outcome = Running
    /\ disk = NoCompanions /\ edl_filepath = None

(***************************************************************************)
(* comcut_restore_cli: the batch                                           *)
(***************************************************************************)
\* Histories the remote service answers with during a run.
RunSizes == {100, 110, 180}

RunHistories == UNION { HistoriesOfLen(n, RunSizes) : n \in 1..MaxRunRevs }

video_filepath == files[idx]

dropbox_path == replace(video_filepath, media_base[1], "/Media")

\* A remote call made for the candidate at position idx; result is "ok" or
\* "ApiError"; rev is 0 for the calls that take no revision.
Call(op, path, rev, result) ==
    [op |-> op, path |-> path, rev |-> rev, file |-> idx, result |-> result]

\* Lines 105-141: options, checks, and the generator over the arguments.
Start ==
    /\ pc = "start"
    /\ LET c == Configure(opts, args, token)
       IN  /\ dry_run' = c.dry_run
           /\ media_base' = c.media_base
           /\ no_older_than_time' = c.no_older_than_time
           /\ IF c.end = "ok"
              THEN /\ files' = generate_files(args, scandir)
                   /\ idx' = 1
                   /\ pc' = "loop"
                   /\ outcome' = outcome
              ELSE /\ pc' = "exit"
                   /\ outcome' = CASE c.end = "usage"    -> Return(255)
                                    [] c.end = "sys.exit" -> SysExit
                                    [] OTHER              -> Raise(c.end)
                   /\ UNCHANGED <<files, idx>>
    /\ UNCHANGED <<edlVars, entries, has_been_cut, uncut_rev, args, scandir, opts, token,
                   calls, status>>

\* Lines 142-149: the next candidate, its companion file and the flag.  What
\* is on disk at the two companion paths is an input (reading a companion
\* file that is there succeeds).
Classify ==
    /\ pc = "loop" /\ idx <= Len(files)
    /\ \E d \in Companions :
          LET path == edl_for_video(video_filepath, path_exists(d, video_filepath))
          IN  /\ disk' = d
              /\ edl_filepath' = Some(path)
              /\ has_been_cut' = cut_complete(d, video_filepath, path)
    /\ pc' = "select"
    /\ UNCHANGED <<entries, no_older_than_time, uncut_rev, fileVars, cfgVars, runVars>>

\* Lines 150-153: find_precut_revision with its remote call, and what
\* follows from the value it returns.  The call may raise ApiError, and an
\* empty list of entries makes revisions[0] raise IndexError; neither is
\* caught anywhere.
ListAndSelect ==
    /\ pc = "select"
    /\ \/ /\ calls' = Append(calls, Call("list_revisions", dropbox_path, 0, "ApiError"))
          /\ outcome' = Raise("ApiError")
          /\ pc' = "exit"
          /\ UNCHANGED <<uncut_rev, idx, status>>
       \/ /\ calls' = Append(calls, Call("list_revisions", dropbox_path, 0, "ok"))
          /\ outcome' = Raise("IndexError")
          /\ pc' = "exit"
          /\ UNCHANGED <<uncut_rev, idx, status>>
       \/ /\ calls' = Append(calls, Call("list_revisions", dropbox_path, 0, "ok"))
          /\ \E ents \in RunHistories :
                uncut_rev' = find_precut_revision(ents, has_been_cut, no_older_than_time)
          /\ IF uncut_rev' = None
             THEN /\ status' = Append(status, "NoMatch")
                  /\ idx' = idx + 1
                  /\ pc' = "loop"
             ELSE IF dry_run
             THEN /\ status' = Append(status, "Selected")
                  /\ idx' = idx + 1
                  /\ pc' = "loop"
             ELSE /\ pc' = "restore"
                  /\ UNCHANGED <<status, idx>>
          /\ UNCHANGED outcome
    /\ UNCHANGED <<entries, has_been_cut, no_older_than_time, fileVars, cfgVars, edlVars>>

\* (variant: the ApiError of files_restore passed over like that of a
\* deletion, so that the deletions follow a failed restore)
Restore_error_passed ==
    /\ pc = "restore"
    /\ \/ /\ calls' = Append(calls, Call("restore", dropbox_path, uncut_rev[1].rev, "ok"))
          /\ status' = Append(status, "Restored")
       \/ /\ calls' = Append(calls,
                           Call("restore", dropbox_path, uncut_rev[1].rev, "ApiError"))
          /\ status' = Append(status, "Failed")
    /\ pc' = "delete_edl"
    /\ idx' = idx
    /\ UNCHANGED <<selVars, fileVars, cfgVars, edlVars, outcome>>

\* Lines 154-155 and 164-165: files_restore, whose ApiError is logged.
Restore ==
    /\ pc = "restore"
    /\ \/ /\ calls' = Append(calls, Call("restore", dropbox_path, uncut_rev[1].rev, "ok"))
          /\ status' = Append(status, "Restored")
          /\ pc' = "delete_edl"
          /\ idx' = idx
       \/ /\ calls' = Append(calls,
                           Call("restore", dropbox_path, uncut_rev[1].rev, "ApiError"))
          /\ status' = Append(status, "Failed")
          /\ idx' = idx + 1
          /\ pc' = "loop"
    /\ UNCHANGED <<selVars, fileVars, cfgVars, edlVars, outcome>>

\* (variant: the first deletion not wrapped in its own try, so that its
\* ApiError reaches the handler of the restore)
DeleteEdl_unguarded ==
    /\ pc = "delete_edl"
    /\ \/ /\ calls' = Append(calls, Call("delete", replace_extension(dropbox_path, "edl"),
                                         0, "ok"))
          /\ pc' = "delete_bak"
          /\ UNCHANGED <<idx, status>>
       \/ /\ calls' = Append(calls, Call("delete", replace_extension(dropbox_path, "edl"),
                                         0, "ApiError"))
          /\ status' = [status EXCEPT ![idx] = "Failed"]
          /\ idx' = idx + 1
          /\ pc' = "loop"
    /\ UNCHANGED <<selVars, fileVars, cfgVars, edlVars, outcome>>

\* Lines 156-159: the first files_delete_v2, its ApiError passed over.
DeleteEdl ==
    /\ pc = "delete_edl"
    /\ \E result \in {"ok", "ApiError"} :
          calls' = Append(calls, Call("delete", replace_extension(dropbox_path, "edl"),
                                      0, result))
    /\ pc' = "delete_bak"
    /\ UNCHANGED <<selVars, fileVars, cfgVars, edlVars, idx, status, outcome>>

\* Lines 160-163: the second files_delete_v2, its ApiError passed over.
DeleteBakEdl ==
    /\ pc = "delete_bak"
    /\ \E result \in {"ok", "ApiError"} :
          calls' = Append(calls, Call("delete", replace_extension(dropbox_path, "bak.edl"),
                                      0, result))
    /\ idx' = idx + 1
    /\ pc' = "loop"
    /\ UNCHANGED <<selVars, fileVars, cfgVars, edlVars, status, outcome>>

\* Line 167: the generator is exhausted.
Finish ==
    /\ pc = "loop" /\ idx > Len(files)
    /\ outcome' = Return(0)
    /\ pc' = "exit"
    /\ UNCHANGED <<selVars, fileVars, cfgVars, edlVars, idx, calls, status>>

Next ==
    \/ Start
    \/ Classify
    \/ ListAndSelect
    \/ Restore
    \/ DeleteEdl
    \/ DeleteBakEdl
    \/ Finish

\* A run starts with nothing done yet.
Fresh ==
    /\ pc = "start"
    /\ entries = << >> /\ has_been_cut = FALSE /\ no_older_than_time = None
    /\ uncut_rev = None /\ files = << >>
    /\ dry_run = FALSE /\ media_base = None
    /\ idx = 0 /\ calls = << >> /\ status = << >>
    /\ outcome = Running
    /\ disk = NoCompanions /\ edl_filepath = None

\* Batches: well-formed command lines, with and without -n and --lt, over
\* argument lists that yield at most MaxFiles candidates.
RunOpts ==
    { n \o <<Opt("-d", "/m")>> \o lt :
        n \in {<< >>, <<Opt("-n", "")>>},
        lt \in {<< >>, <<Opt("--lt", "2026-01-02")>>} }

RunArgPaths == {"/m/s", "/m/a.mkv", "/m/t/d.edl"}

RunArgSeqs ==
    { as \in UNION { [1..n -> RunArgPaths] : n \in 0..MaxArgs } :
        Len(generate_files(as, SortedListing)) <= MaxFiles }

Init ==
    /\ Fresh
    /\ opts \in RunOpts
    /\ args \in RunArgSeqs
    /\ token = Some("secret")
    /\ scandir = SortedListing

Spec == Init /\ [][Next]_vars

\* Command lines: every sequence of at most MaxOpts options, with and
\* without an argument and an access token.
CliOpts ==
    {Opt("-h", ""), Opt("-x", ""), Opt("--verbose", ""), Opt("-n", ""),
     Opt("-d", "/m"), Opt("--dir", "/m/"), Opt("-d", "/"),
     Opt("--lt", "2026-01-01"), Opt("--lt", "soon")}

InitCli ==
    /\ Fresh
    /\ opts \in UNION { [1..n -> CliOpts] : n \in 0..MaxOpts }
    /\ args \in {<< >>, <<"/m/a.mkv">>}
    /\ token \in {None, Some("secret")}
    /\ scandir = SortedListing

SpecCli == InitCli /\ [][Next]_vars

(***************************************************************************)
(* The selector on its own: every history, flag and cutoff, then one call. *)
(***************************************************************************)
InitSelect ==
    /\ pc = "select"
    /\ entries \in Histories
    /\ has_been_cut \in BOOLEAN
    /\ no_older_than_time \in Cutoffs(entries)
    /\ uncut_rev = None
    /\ args = << >> /\ scandir = SortedListing /\ files = << >>
    /\ IdleRun

Select ==
    /\ pc = "select"
    /\ uncut_rev' = find_precut_revision(entries, has_been_cut, no_older_than_time)
    /\ pc' = "selected"
    /\ UNCHANGED <<entries, has_been_cut, no_older_than_time, fileVars, cfgVars, edlVars, runVars>>

NextSelect == Select

SpecSelect == InitSelect /\ [][NextSelect]_vars

(***************************************************************************)
(* The classifier on its own: every argument list and every listing order, *)
(* then one full consumption of generate_files.                            *)
(***************************************************************************)
InitFiles ==
    /\ pc = "generate"
    /\ args \in ArgSeqs
    /\ scandir \in ValidListings
    /\ files = << >>
    /\ entries = << >> /\ has_been_cut = FALSE /\ no_older_than_time = None
    /\ uncut_rev = None
    /\ IdleRun

Generate ==
    /\ pc = "generate"
    /\ files' = generate_files(args, scandir)
    /\ pc' = "generated"
    /\ UNCHANGED <<args, scandir, selVars, cfgVars, edlVars, runVars>>

NextFiles == Generate

SpecFiles == InitFiles /\ [][NextFiles]_vars

(***************************************************************************)
(* Properties of find_precut_revision.  They are stated over the history   *)
(* ranked by modification time, with the thresholds written out, and not   *)
(* through the operators above.                                            *)
(***************************************************************************)
Min(S) == CHOOSE m \in S : \A n \in S : m <= n

\* The k-th newest revision of the history h (k = 1 is the current one).
Newest(h, k) ==
    CHOOSE e \in Range(h) :
        Cardinality({ f \in Range(h) : f.server_modified > e.server_modified }) = k - 1

Baseline(h) == Newest(h, 1).size

TooLarge(e, L) == e.size * 10 > 18 * L

Qualifies(e, L, cut) == e.size * 100 > (IF cut THEN 107 ELSE 110) * L

TooSmall(e, L) == e.size * 10 < 8 * L

Fires(e, L, cut) == TooLarge(e, L) \/ Qualifies(e, L, cut) \/ TooSmall(e, L)

Verdict(e, L, cut) ==
    IF TooLarge(e, L) THEN None
    ELSE IF Qualifies(e, L, cut) THEN Some(e)
    ELSE None

\* The ranks of the older revisions the walk may look at: those before the
\* first one that predates the cutoff.
Evaluated(h, cutoff) ==
    { k \in 2..Len(h) :
        \A j \in 2..k : cutoff = None \/ Newest(h, j).server_modified >= cutoff[1] }

\* The decision taken at the first revision of rank >= from that fires.
DecideFrom(h, cut, cutoff, from) ==
    LET L == Baseline(h)
        firing == { k \in Evaluated(h, cutoff) : k >= from /\ Fires(Newest(h, k), L, cut) }
    IN  IF firing = {} THEN None ELSE Verdict(Newest(h, Min(firing)), L, cut)

\* The walk gets as far as the revision of rank k.
Reached(h, cut, cutoff, k) ==
    /\ k \in Evaluated(h, cutoff)
    /\ \A j \in 2..(k - 1) : ~Fires(Newest(h, j), Baseline(h), cut)

C2_CutoffStopsTheWalk ==
    (pc = "selected" /\ no_older_than_time # None) =>
        LET t == no_older_than_time[1]
            predating == { k \in 2..Len(entries) : Newest(entries, k).server_modified < t }
        IN  /\ uncut_rev # None => uncut_rev[1].server_modified >= t
            /\ \A k \in predating :
                  Reached(entries, has_been_cut, None, k) => uncut_rev = None
            /\ \A k \in 2..Len(entries) :
                  (/\ Newest(entries, k).server_modified = t
                   /\ Reached(entries, has_been_cut, None, k)
                   /\ Fires(Newest(entries, k), Baseline(entries), has_been_cut))
                  => uncut_rev = Verdict(Newest(entries, k), Baseline(entries), has_been_cut)
            /\ uncut_rev = DecideFrom(entries, has_been_cut, no_older_than_time, 2)

\* C2 witness: the first older revision predates the cutoff and has a
\* qualifying size, and the result is no match.
C2_Witness ==
    /\ pc = "selected" /\ no_older_than_time # None /\ Len(entries) >= 2
    /\ Newest(entries, 2).server_modified < no_older_than_time[1]
    /\ Verdict(Newest(entries, 2), Baseline(entries), has_been_cut) # None
    /\ uncut_rev = None

\* The revision of rank k is one the walk reaches and its size is exactly x
\* hundredths of the baseline.
ReachedAt(k, x) ==
    /\ Reached(entries, has_been_cut, no_older_than_time, k)
    /\ Newest(entries, k).size * 100 = x * Baseline(entries)

\* The walk went on past rank k: the result is the decision taken further on.
ContinuesPast(k) ==
    uncut_rev = DecideFrom(entries, has_been_cut, no_older_than_time, k + 1)

\* C3 as claimed: an older revision whose size is exactly target_size,
\* exactly 1.8x or exactly 0.8x the baseline fires no branch, and the walk
\* continues with the next older revision.
C3_Original_NoBranchAtAnyBoundary ==
    pc = "selected" =>
        \A k \in 2..Len(entries) :
            (\/ ReachedAt(k, IF has_been_cut THEN 107 ELSE 110)
             \/ ReachedAt(k, 180)
             \/ ReachedAt(k, 80))
            => ContinuesPast(k)

\* C3 amended: the three comparisons are strict.  A reached revision whose
\* size is exactly target_size or exactly 0.8x the baseline fires no branch
\* and the walk continues; one whose size is exactly 1.8x the baseline does
\* not fire the pre-transcoded branch: it goes on to the target test, which
\* returns it when the baseline is positive (1.8x is above target_size) and
\* lets the walk continue when the baseline is 0.
C3_StrictComparisons ==
    pc = "selected" =>
        \A k \in 2..Len(entries) :
            /\ ReachedAt(k, IF has_been_cut THEN 107 ELSE 110) => ContinuesPast(k)
            /\ ReachedAt(k, 80) => ContinuesPast(k)
            /\ ReachedAt(k, 180) =>
                  IF Baseline(entries) > 0
                  THEN uncut_rev = Some(Newest(entries, k))
                  ELSE ContinuesPast(k)

\* C3 witness: the walk went past a revision of exactly target_size and
\* returned an older revision of exactly 1.8x the (positive) baseline.
C3_Witness ==
    /\ pc = "selected" /\ Len(entries) = 3 /\ Baseline(entries) > 0
    /\ ReachedAt(2, IF has_been_cut THEN 107 ELSE 110)
    /\ ReachedAt(3, 180)
    /\ uncut_rev = Some(Newest(entries, 3))

\* C4: when all the revisions of the history have the same size, whatever
\* its length, the flag and the cutoff, the result is no match.
C4_EqualSizesNoMatch ==
    (pc = "selected" /\ \A i, j \in 1..Len(entries) : entries[i].size = entries[j].size)
        => uncut_rev = None

\* C4 witness: three revisions of one positive size, all inside the cutoff,
\* went through the walk.
C4_Witness ==
    /\ pc = "selected" /\ Len(entries) = 3 /\ uncut_rev = None
    /\ \A i \in 1..3 : entries[i].size = 100
    /\ Evaluated(entries, no_older_than_time) = {2, 3}

(***************************************************************************)
(* Properties of generate_files.                                           *)
(***************************************************************************)
\* The final dotted suffix of a file name, "" when the name has no dot.
FinalSuffix(name) ==
    IF rfind(name, ".") = 0 THEN "" ELSE SubSeq(name, rfind(name, ".") + 1, Len(name))

\* The file p is given as an argument or lies below a directory given as one.
Offered(p) ==
    \/ p \in Range(args)
    \/ \E a \in Range(args) : isdir(a) /\ startswith(p, a \o "/")

\* C10: generate_files yields a path if and only if its extension is one of
\* mkv, ts, mp4, mov (case-sensitive) and its file name begins neither with
\* "._" nor with ".", for paths given directly as file arguments as well as
\* for files found by directory traversal.
C10_YieldedIffVideoAndNotHidden ==
    pc = "generated" =>
        /\ Range(files) \subseteq FsFiles
        /\ \A p \in FsFiles :
              Offered(p) =>
                  (p \in Range(files) <=>
                     /\ FinalSuffix(basename(p)) \in {"mkv", "ts", "mp4", "mov"}
                     /\ ~startswith(basename(p), "._")
                     /\ ~startswith(basename(p), "."))

(***************************************************************************)
(* Properties of comcut_restore_cli.                                       *)
(***************************************************************************)
\* The remote calls made for the candidate at position k, in order.
CallsOf(k) == SelectSeq(calls, LAMBDA c : c.file = k)

\* The path p with the text after its last dot replaced by suffix.
WithSuffix(p, suffix) == SubSeq(p, 1, rfind(p, ".")) \o suffix

\* C5: in a dry run over a batch (the command line being in order) no
\* restore and no delete is ever invoked, selection still runs for every
\* candidate, and the run returns exit code 0.
C5_DryRunSelectsAllMutatesNothing ==
    (dry_run /\ idx >= 1) =>
        /\ \A i \in 1..Len(calls) : calls[i].op \notin {"restore", "delete"}
        /\ pc = "exit" =>
              /\ outcome = Return(0)
              /\ Len(status) = Len(files)
              /\ \A k \in 1..Len(files) : CallsOf(k) # << >>

\* C6: when the restore call fails with an API error for a candidate, it is
\* not retried and the batch is not aborted: every later candidate is still
\* classified and run through selection, and the run returns exit code 0.
C6_RestoreFailureIsolated ==
    /\ \A k \in 1..Len(files) :
          Cardinality({ i \in 1..Len(calls) :
                          calls[i].file = k /\ calls[i].op = "restore" }) <= 1
    /\ (pc = "exit" /\ \E i \in 1..Len(calls) :
                           calls[i].op = "restore" /\ calls[i].result = "ApiError")
        => /\ outcome = Return(0)
           /\ Len(status) = Len(files)

\* C7: after a successful restore of a candidate the deletion of the .edl
\* path and then of the .bak.edl path are attempted, the second whatever
\* the first returned; an API error from either neither marks the candidate
\* as failed nor ends the run there: the following candidate is taken up.
C7_BothDeletionsAttempted ==
    \A k \in 1..Len(files) :
        LET cs == CallsOf(k) IN
        (Len(cs) >= 2 /\ cs[2].op = "restore" /\ cs[2].result = "ok") =>
            /\ Len(cs) <= 4
            /\ Len(cs) >= 3 => (cs[3].op = "delete" /\ cs[3].path = WithSuffix(cs[2].path, "edl"))
            /\ Len(cs) = 4 =>
                  (cs[4].op = "delete" /\ cs[4].path = WithSuffix(cs[2].path, "bak.edl"))
            /\ (k < idx \/ pc = "exit") => Len(cs) = 4
            /\ Len(status) >= k /\ status[k] = "Restored"
            /\ (pc = "exit" /\ k < Len(files)) => CallsOf(k + 1) # << >>
            /\ (pc = "exit" /\ k = Len(files)) => outcome = Return(0)

\* C7 witness: both deletions of a restored candidate returned an API error
\* and the next candidate has been taken up.
C7_Witness ==
    \E k \in 1..Len(files) :
        /\ Len(CallsOf(k)) = 4
        /\ CallsOf(k)[2].op = "restore" /\ CallsOf(k)[2].result = "ok"
        /\ CallsOf(k)[3].result = "ApiError"
        /\ CallsOf(k)[4].result = "ApiError"
        /\ CallsOf(k + 1) # << >>

\* C8: no per-file error aborts the batch: once the batch has begun, every
\* candidate is processed, also after an error of list_revisions or an
\* empty revision list for an earlier one, and the run returns normally.
C8_PerFileErrorsIsolated ==
    (pc = "exit" /\ idx >= 1) =>
        /\ outcome = Return(0)
        /\ \A k \in 1..Len(files) : CallsOf(k) # << >>

\* The command line holds one of the configuration errors: a malformed
\* option (-x, which getopt rejects), no positional argument, no --dir, no
\* access token, or a malformed --lt timestamp ("soon").
ConfigError ==
    \/ \E i \in 1..Len(opts) : opts[i].opt = "-x"
    \/ args = << >>
    \/ ~\E i \in 1..Len(opts) : opts[i].opt \in {"-d", "--dir"}
    \/ token = None
    \/ \E i \in 1..Len(opts) : opts[i].opt = "--lt" /\ opts[i].arg = "soon"

\* C9: on every configuration error the run ends with a non-zero outcome
\* and no remote operation is invoked at any point before it ends.
C9_ConfigErrorBeforeAnyRemoteCall ==
    ConfigError =>
        /\ calls = << >>
        /\ pc \in {"start", "exit"}
        /\ pc = "exit" => (outcome.kind # "running" /\ outcome.code # 0)

\* C9 witness: a run with directory, argument and token that ended on a
\* malformed --lt timestamp.
C9_Witness ==
    /\ pc = "exit" /\ outcome = Raise("ValueError") /\ calls = << >>
    /\ args # << >> /\ token # None
    /\ \E i \in 1..Len(opts) : opts[i].opt \in {"-d", "--dir"}

\* C11: the sequence generate_files yields is the same whatever order the
\* OS lists the entries of each directory in (files and sub-directories),
\* and the files of one directory come in lexicographic order.
C11_OrderIndependentOfListing ==
    pc = "generated" =>
        /\ \A l \in ValidListings : generate_files(args, l) = files
        /\ \A a \in Range(args) : \A d \in FsDirs :
              LET here == SelectSeq(GenerateOne(a, scandir),
                                    LAMBDA p : p = join(d, basename(p)))
              IN  \A i \in 1..(Len(here) - 1) : StrLess(here[i], here[i + 1])

\* The remote path of a local path below the media root: "/Media" and the
\* part of the local path after the root.
RemoteOf(local, root) == "/Media" \o SubSeq(local, Len(root) + 1, Len(local))

\* C12: for every candidate whose local path begins with the media root,
\* the remote path of its list_revisions, restore and delete calls is
\* "/Media" followed by the rest of the local path (for the deletions with
\* the extension replaced): only the leading media root is substituted.
C12_OnlyLeadingRootSubstituted ==
    \A i \in 1..Len(calls) :
        LET local == files[calls[i].file] IN
        startswith(local, media_base[1]) =>
            calls[i].path \in
                IF calls[i].op = "delete"
                THEN {WithSuffix(RemoteOf(local, media_base[1]), "edl"),
                      WithSuffix(RemoteOf(local, media_base[1]), "bak.edl")}
                ELSE {RemoteOf(local, media_base[1])}

\* The revisions of the history h arranged newest first and oldest first.
NewestFirst(h) == [k \in 1..Len(h) |-> Newest(h, k)]

OldestFirst(h) == [k \in 1..Len(h) |-> Newest(h, Len(h) + 1 - k)]

\* C13: the result does not depend on the order in which the service
\* returns the revisions (their modification times being pairwise
\* distinct): whatever the order, the baseline is the revision modified
\* last and the selection is the one made on the same revisions returned
\* newest first, or oldest first.  The histories range over every order.
C13_ResultIndependentOfServiceOrder ==
    pc = "selected" =>
        /\ sorted(entries)[1] = Newest(entries, 1)
        /\ \A e \in Range(entries) : e.server_modified <= sorted(entries)[1].server_modified
        /\ uncut_rev = find_precut_revision(NewestFirst(entries), has_been_cut,
                                            no_older_than_time)
        /\ uncut_rev = find_precut_revision(OldestFirst(entries), has_been_cut,
                                            no_older_than_time)

\* C13 witness: the service returned the current revision last and the
\* revision selected first.
C13_Witness ==
    /\ pc = "selected" /\ Len(entries) = 3
    /\ entries[3] = Newest(entries, 1)
    /\ uncut_rev = Some(entries[1])
    /\ entries[1] = Newest(entries, 3)

\* C14: processing is sequential and every candidate reaches a terminal
\* state: the run over a batch ends with each candidate in exactly one of
\* NoMatch, Restored (and cleaned up) or Failed, and all the remote calls
\* for one candidate come before the first call for the next one.
C14_SequentialAndAllTerminal ==
    /\ \A i \in 1..(Len(calls) - 1) : calls[i].file <= calls[i + 1].file
    /\ (pc = "exit" /\ idx >= 1) =>
          /\ outcome = Return(0)
          /\ Len(status) = Len(files)
          /\ \A k \in 1..Len(status) : status[k] \in {"NoMatch", "Restored", "Failed"}
          /\ \A k \in 1..Len(status) :
                status[k] = "Restored" => Len(CallsOf(k)) = 4

\* C15: the companion path resolved for a candidate is its .edl path when
\* something exists there, otherwise its .bak.edl path when something
\* exists there, otherwise the .edl path; and the already-cut flag handed to
\* selection is true exactly when the resolved path is a regular file that
\* holds the marker, so an .edl without the marker gives a false flag
\* whatever the .bak.edl holds.
C15_CompanionResolutionAndCutFlag ==
    (pc = "select" /\ edl_filepath # None) =>
        LET edl == WithSuffix(files[idx], "edl")
            bak == WithSuffix(files[idx], "bak.edl")
            resolved == IF disk.edl # "absent" THEN edl
                        ELSE IF disk.bak # "absent" THEN bak
                        ELSE edl
            found == IF resolved = edl THEN disk.edl ELSE disk.bak
        IN  /\ edl_filepath = Some(resolved)
            /\ has_been_cut <=> (found = "cut")
            /\ disk.edl \in {"file", "dir"} => ~has_been_cut

\* An .edl without the marker beside a .bak.edl with it: the .edl path is
\* resolved and the flag is false.
C15_Witness ==
    /\ pc = "select" /\ idx >= 1
    /\ disk.edl = "file" /\ disk.bak = "cut"
    /\ edl_filepath = Some(WithSuffix(files[idx], "edl"))
    /\ ~has_been_cut

\* The rank of the revision e in the history h, 1 for the current one.
RankOf(h, e) ==
    1 + Cardinality({ f \in Range(h) : f.server_modified > e.server_modified })

\* C16: when selection returns a revision for a file not marked as cut, it
\* also returns one for the same history and cutoff with the file marked as
\* cut, and that one is the same revision or a more recent one.
C16_LowerThresholdKeepsTheMatch ==
    (pc = "selected" /\ ~has_been_cut /\ uncut_rev # None) =>
        LET marked == find_precut_revision(entries, TRUE, no_older_than_time)
        IN  /\ marked # None
            /\ marked[1].server_modified >= uncut_rev[1].server_modified

\* A history where the lower threshold picks a strictly more recent
\* revision than the higher one does.
C16_Witness ==
    /\ pc = "selected" /\ ~has_been_cut /\ uncut_rev # None
    /\ LET marked == find_precut_revision(entries, TRUE, no_older_than_time)
       IN  /\ marked # None
           /\ marked[1].server_modified > uncut_rev[1].server_modified

\* C17: a returned revision is one of the history and not the current one;
\* its size is above the current size and at most 1.8 times it; every
\* revision between the current one and it has a size from 0.8 times the
\* current size up to the threshold (1.07 or 1.10 times), both included;
\* and nothing is returned when the current size is 0.
C17_SelectionInvariant ==
    (pc = "selected" /\ uncut_rev # None) =>
        LET L == Baseline(entries)
            r == uncut_rev[1]
        IN  /\ r \in Range(entries)
            /\ r # Newest(entries, 1)
            /\ r.size > L
            /\ r.size * 10 <= 18 * L
            /\ \A j \in 2..(RankOf(entries, r) - 1) :
                   /\ Newest(entries, j).size * 10 >= 8 * L
                   /\ Newest(entries, j).size * 100
                         <= (IF has_been_cut THEN 107 ELSE 110) * L
            /\ L # 0

\* A revision returned from behind a revision whose size is within the band.
C17_Witness ==
    /\ pc = "selected" /\ uncut_rev # None
    /\ RankOf(entries, uncut_rev[1]) >= 3
    /\ Newest(entries, 2).size # Baseline(entries)

\* The remote mutations in a sequence of calls.
Mutations(cs) == SelectSeq(cs, LAMBDA c : c.op \in {"restore", "delete"})

\* C18: the value of selection changes only in the step that lists the
\* revisions of the current candidate; a restore is called only right after
\* that step answered for the same candidate and the same remote path, with
\* the identifier of the revision selection returned, hence once per visit;
\* a companion path is deleted only after the restore of the same candidate
\* returned successfully; and a candidate without a match or with a failed
\* restore has no deletion (without a match, no restore either).
C18_MutationsOnlyForSelectedRevision ==
    [][ /\ uncut_rev' # uncut_rev =>
              /\ Len(calls') = Len(calls) + 1
              /\ calls'[Len(calls')].op = "list_revisions"
              /\ calls'[Len(calls')].file = idx
        /\ calls' # calls =>
              LET c == calls'[Len(calls')]
                  before == CallsOf(c.file)
              IN  /\ calls' = Append(calls, c)
                  /\ c.op = "restore" =>
                        /\ uncut_rev # None /\ uncut_rev' = uncut_rev
                        /\ c.rev = uncut_rev[1].rev
                        /\ Len(before) = 1
                        /\ before[1] = calls[Len(calls)]
                        /\ before[1].op = "list_revisions"
                        /\ before[1].result = "ok"
                        /\ before[1].path = c.path
                  /\ c.op = "delete" =>
                        /\ Len(before) >= 2
                        /\ before[2].op = "restore" /\ before[2].result = "ok"
                        /\ status[c.file] = "Restored"
        /\ \A k \in 1..Len(status') :
              /\ status'[k] \in {"NoMatch", "Selected"} => Mutations(CallsOf(k))' = << >>
              /\ status'[k] = "Failed" =>
                    /\ Len(Mutations(CallsOf(k))') = 1
                    /\ Mutations(CallsOf(k))'[1].op = "restore"
      ]_vars

\* One candidate restored and both its companions deleted, another whose
\* restore failed, in the same run.
C18_Witness ==
    /\ \E k \in 1..Len(status) :
          /\ status[k] = "Restored"
          /\ Len(Mutations(CallsOf(k))) = 3
    /\ \E k \in 1..Len(status) :
          /\ status[k] = "Failed"
          /\ Len(CallsOf(k)) = 2

====
